---- MODULE Spec2Model ----
(***************************************************************************)
(* Model of the executable core of dungeons-and-data-structures:           *)
(*   - AdventureGraph (src/src/nodes/adventure-graph.ts), a node map plus   *)
(*     one traversal cursor;                                                *)
(*   - the five-room-dungeon fixture and the entry point that loads it;     *)
(*   - runGame and getNextNodeId, the command-line loop over the graph;     *)
(*   - EncounterEvaluator (src/src/algorithms/encounter-evaluator.ts);      *)
(*   - the hit-point methods of StatBlock.                                  *)
(* A node is [id, choices, isEnding]; a choice is [nextNodeId].  The        *)
(* display texts play no part in any operation and are left out.            *)
(***************************************************************************)
EXTENDS Integers, Sequences, FiniteSets, TLC

VARIABLES
    nodes,          \* AdventureGraph.nodes: Map<number, AdventureNode>
    currentNodeId,  \* AdventureGraph.currentNodeId
    op,             \* the last method called on the graph
    arg,            \* its argument (a node id or a node), 0 when it takes none
    ret,            \* what it returned (or that it threw)
    pc,             \* position of the caller (the entry point's script)
    loaded,         \* entry point: how many fixture nodes forEach has added
    path,           \* node ids the cursor has been on, oldest first
    frames,         \* getNextNodeId: nextNodeId of each activation, innermost last
    party,          \* Encounter.party: the levels of the party members
    opponents,      \* Encounter.opponents: one XP value per opponent
    evaluation,     \* what EncounterEvaluator.evaluate gave for them
    thresholdsByLevel,  \* the XP_THRESHOLDS_BY_LEVEL object as it is now
    statBlock       \* the fields of one StatBlock that its combat methods use

graph == <<nodes, currentNodeId>>

call == <<op, arg, ret>>

driver == <<pc, loaded, path, frames>>

encounter == <<party, opponents, evaluation, thresholdsByLevel>>

vars == <<nodes, currentNodeId, op, arg, ret, pc, loaded, path, frames,
          party, opponents, evaluation, thresholdsByLevel, statBlock>>

\* ------------------------------------------------------------ bounds

\* The most entries the client puts in the node map.
MaxNodes == 2

\* Node ids the client uses as keys, starting ids, choice targets and
\* arguments: three, the fewest with which a map of two nodes can still
\* hold a choice whose target is missing.
NodeIds == {1, 2, 3}

\* ------------------------------------------------------- JS values

Undefined == [kind |-> "undefined"]

Void == [kind |-> "void"]

TypeError == [kind |-> "TypeError"]

Bool(b) == [kind |-> "bool", val |-> b]

Array(s) == [kind |-> "array", items |-> s]

Number(n) == [kind |-> "number", val |-> n]

\* ------------------------------------------------- node data model

Choice(t) == [nextNodeId |-> t]

\* Choice lists of a node: none, one, or two choices (equal or different
\* targets; the ids are interchangeable, so the pairs are listed once).
ChoiceLists ==
    {<<>>} \cup {<<Choice(a)>> : a \in NodeIds}
           \cup {<<Choice(p[1]), Choice(p[2])>> :
                     p \in {q \in NodeIds \X NodeIds : q[1] <= q[2]}}

AdventureNode == [id : NodeIds, choices : ChoiceLists, isEnding : BOOLEAN]

\* ------------------------------------------------ Map and Array helpers

\* Map.prototype.has
MapHas(m, k) == k \in DOMAIN m

\* Map.prototype.get: the value, or undefined for a missing key
MapGet(m, k) == IF k \in DOMAIN m THEN m[k] ELSE Undefined

\* Map.prototype.set: insert or overwrite one key
MapSet(m, k, v) == [x \in DOMAIN m \cup {k} |-> IF x = k THEN v ELSE m[x]]

\* Array.prototype.map(choice => choice.nextNodeId)
MapNextNodeId(choices) == [i \in 1..Len(choices) |-> choices[i].nextNodeId]

\* Array.prototype.includes: left-to-right scan
RECURSIVE Includes(_, _)
Includes(s, x) ==
    IF s = <<>> THEN FALSE
    ELSE IF Head(s) = x THEN TRUE
    ELSE Includes(Tail(s), x)

\* ----------------------------------------------------- AdventureGraph

\* getCurrentNode(): this.nodes.get(this.currentNodeId)
GetCurrentNodeValue(m, cur) == MapGet(m, cur)

\* The body of makeChoice as a pure step: <<returned value, new cursor>>.
\* `currentNode?.choices.map(...)` is undefined for an absent node, and
\* `choiceIds?.includes(choiceId)` is then undefined, which `!` turns true.
\* Variant: the membership test of line 22 is dropped.
MakeChoiceUnchecked(m, cur, choiceId) ==
    LET currentNode == GetCurrentNodeValue(m, cur) IN
    IF currentNode = Undefined THEN <<Bool(FALSE), cur>>
    ELSE <<Bool(TRUE), choiceId>>

\* Variant: the cursor is assigned before the test instead of after it.
MakeChoiceEarlyWrite(m, cur, choiceId) ==
    LET currentNode == GetCurrentNodeValue(m, cur) IN
    IF currentNode = Undefined
       \/ ~Includes(MapNextNodeId(currentNode.choices), choiceId)
    THEN <<Bool(FALSE), choiceId>>
    ELSE <<Bool(TRUE), choiceId>>

\* Variant: the cursor is set from the first choice, not from choiceId.
MakeChoiceByIndex(m, cur, choiceId) ==
    LET currentNode == GetCurrentNodeValue(m, cur) IN
    IF currentNode = Undefined
       \/ ~Includes(MapNextNodeId(currentNode.choices), choiceId)
    THEN <<Bool(FALSE), cur>>
    ELSE <<Bool(TRUE), currentNode.choices[1].nextNodeId>>

MakeChoiceStep(m, cur, choiceId) ==
    LET currentNode == GetCurrentNodeValue(m, cur)
        choiceIds   == IF currentNode = Undefined THEN Undefined
                       ELSE Array(MapNextNodeId(currentNode.choices))
    IN  IF currentNode = Undefined
           \/ (IF choiceIds = Undefined THEN TRUE
               ELSE ~Includes(choiceIds.items, choiceId))
        THEN <<Bool(FALSE), cur>>
        ELSE <<Bool(TRUE), choiceId>>

\* isAtEnding(): currentNode ? currentNode.isEnding : false
\* Variant: isEnding is read without the test for an absent node.
IsAtEndingThrowing(m, cur) ==
    LET currentNode == GetCurrentNodeValue(m, cur) IN
    IF currentNode = Undefined THEN TypeError ELSE Bool(currentNode.isEnding)

IsAtEndingValue(m, cur) ==
    LET currentNode == GetCurrentNodeValue(m, cur) IN
    IF currentNode = Undefined THEN Bool(FALSE) ELSE Bool(currentNode.isEnding)

\* The inner loop of validateGraph over one node's choices: FALSE at the
\* first choice whose target is not a key.
RECURSIVE ChoicesResolve(_, _)
ChoicesResolve(m, choices) ==
    IF choices = <<>> THEN TRUE
    ELSE IF ~MapHas(m, Head(choices).nextNodeId) THEN FALSE
    ELSE ChoicesResolve(m, Tail(choices))

\* The outer loop of validateGraph over this.nodes.values().  The order of
\* iteration decides only which dangling choice is logged, not the result;
\* the keys still to visit are taken smallest first.
RECURSIVE ValidateFrom(_, _)
\* Variant: the outer loop returns after its first node.
ValidateFirstOnly(m, keys) ==
    IF keys = {} THEN TRUE
    ELSE LET k == CHOOSE x \in keys : \A y \in keys : x <= y
         IN  ChoicesResolve(m, m[k].choices)

ValidateFrom(m, keys) ==
    IF keys = {} THEN TRUE
    ELSE LET k == CHOOSE x \in keys : \A y \in keys : x <= y
         IN  IF ~ChoicesResolve(m, m[k].choices) THEN FALSE
             ELSE ValidateFrom(m, keys \ {k})

ValidateGraphValue(m) == Bool(ValidateFrom(m, DOMAIN m))

\* addNode(node): this.nodes.set(node.id, node)
\* Variant: an id already present is not overwritten.
AddNodeKeepFirst(m, node) == IF MapHas(m, node.id) THEN m ELSE MapSet(m, node.id, node)

AddNodeMap(m, node) == MapSet(m, node.id, node)

\* ------------------------------------------------------------ actions

\* new AdventureGraph(startingNodeId): empty map, cursor on the given id
Constructor(startingNodeId) ==
    /\ nodes = <<>>
    /\ currentNodeId = startingNodeId
    /\ op = "constructor"
    /\ arg = startingNodeId
    /\ ret = Void

\* Variant: adding a node also puts the cursor on it.
AddNodeMovingCursor(node) ==
    /\ nodes' = AddNodeMap(nodes, node)
    /\ currentNodeId' = node.id
    /\ op' = "addNode"
    /\ arg' = node
    /\ ret' = Void

AddNode(node) ==
    /\ nodes' = AddNodeMap(nodes, node)
    /\ op' = "addNode"
    /\ arg' = node
    /\ ret' = Void
    /\ UNCHANGED currentNodeId

GetCurrentNode ==
    /\ op' = "getCurrentNode"
    /\ arg' = 0
    /\ ret' = GetCurrentNodeValue(nodes, currentNodeId)
    /\ UNCHANGED graph

MakeChoice(choiceId) ==
    LET r == MakeChoiceStep(nodes, currentNodeId, choiceId) IN
    /\ op' = "makeChoice"
    /\ arg' = choiceId
    /\ ret' = r[1]
    /\ currentNodeId' = r[2]
    /\ UNCHANGED nodes

IsAtEnding ==
    /\ op' = "isAtEnding"
    /\ arg' = 0
    /\ ret' = IsAtEndingValue(nodes, currentNodeId)
    /\ UNCHANGED graph

ValidateGraph ==
    /\ op' = "validateGraph"
    /\ arg' = 0
    /\ ret' = ValidateGraphValue(nodes)
    /\ UNCHANGED graph

\* ------------------------------------------ specification: any client

NotEvaluated == [kind |-> "none"]

\* No StatBlock has been constructed.
NoStatBlock == [kind |-> "none"]

\* Variant: the Medium and Hard values of a row are written the wrong way
\* round.
ThresholdsSwapped(e, m, h, d) == [Easy |-> e, Medium |-> h, Hard |-> m, Deadly |-> d]

Thresholds(e, m, h, d) == [Easy |-> e, Medium |-> m, Hard |-> h, Deadly |-> d]

\* XP_THRESHOLDS_BY_LEVEL: the row of level L is the L-th element.
XP_THRESHOLDS_BY_LEVEL ==
    << Thresholds(25, 50, 75, 100),
       Thresholds(50, 100, 150, 200),
       Thresholds(75, 150, 225, 400),
       Thresholds(125, 250, 375, 500),
       Thresholds(250, 500, 750, 1100),
       Thresholds(300, 600, 900, 1400),
       Thresholds(350, 750, 1100, 1700),
       Thresholds(450, 900, 1400, 2100),
       Thresholds(550, 1100, 1600, 2400),
       Thresholds(600, 1200, 1900, 2800),
       Thresholds(800, 1600, 2400, 3600),
       Thresholds(1000, 2000, 3000, 4500),
       Thresholds(1100, 2200, 3400, 5100),
       Thresholds(1250, 2500, 3800, 5700),
       Thresholds(1400, 2800, 4300, 6400),
       Thresholds(1600, 3200, 4800, 7200),
       Thresholds(2000, 3900, 5900, 8800),
       Thresholds(2100, 4200, 6300, 9500),
       Thresholds(2400, 4900, 7300, 10900),
       Thresholds(2800, 5700, 8500, 12700) >>

\* No encounter has been given to the evaluator.
NoEncounter ==
    /\ party = <<>>
    /\ opponents = <<>>
    /\ evaluation = NotEvaluated
    /\ thresholdsByLevel = XP_THRESHOLDS_BY_LEVEL

\* A client that builds any graph over NodeIds and calls the methods in
\* any order, with any id as argument.
Init ==
    /\ pc = "client"
    /\ loaded = 0
    /\ frames = <<>>
    /\ path = <<>>
    /\ NoEncounter
    /\ statBlock = NoStatBlock
    /\ \E startingNodeId \in NodeIds : Constructor(startingNodeId)

ClientAddNode ==
    \E node \in AdventureNode :
        /\ MapHas(nodes, node.id) \/ Cardinality(DOMAIN nodes) < MaxNodes
        /\ AddNode(node)
        /\ UNCHANGED <<driver, encounter, statBlock>>

ClientGetCurrentNode == GetCurrentNode /\ UNCHANGED <<driver, encounter, statBlock>>

ClientMakeChoice == \E choiceId \in NodeIds : MakeChoice(choiceId) /\ UNCHANGED <<driver, encounter, statBlock>>

ClientIsAtEnding == IsAtEnding /\ UNCHANGED <<driver, encounter, statBlock>>

ClientValidateGraph == ValidateGraph /\ UNCHANGED <<driver, encounter, statBlock>>

Next ==
    \/ ClientAddNode
    \/ ClientGetCurrentNode
    \/ ClientMakeChoice
    \/ ClientIsAtEnding
    \/ ClientValidateGraph

Spec == Init /\ [][Next]_vars

\* ------------------- the documented class with index-based makeChoice

\* makeChoice(choiceIndex) of the documentation's AdventureGraph, indices
\* counted from 0: false when there is no current node or the index is at
\* or past choices.length; else choices[choiceIndex].nextNodeId is read,
\* which throws when choices[choiceIndex] is undefined (a negative index),
\* before the cursor is written.
MakeChoiceIndexStep(m, cur, choiceIndex) ==
    LET currentNode == GetCurrentNodeValue(m, cur) IN
    IF currentNode = Undefined THEN <<Bool(FALSE), cur>>
    ELSE IF choiceIndex >= Len(currentNode.choices) THEN <<Bool(FALSE), cur>>
    ELSE IF choiceIndex + 1 \notin DOMAIN currentNode.choices THEN <<TypeError, cur>>
    ELSE <<Bool(TRUE), currentNode.choices[choiceIndex + 1].nextNodeId>>

MakeChoiceIndexed(choiceIndex) ==
    LET r == MakeChoiceIndexStep(nodes, currentNodeId, choiceIndex) IN
    /\ op' = "makeChoiceIndexed"
    /\ arg' = choiceIndex
    /\ ret' = r[1]
    /\ currentNodeId' = r[2]
    /\ UNCHANGED nodes

\* Indices a client passes: each choice of a two-choice node, one past
\* the end, and one before the start.
ChoiceIndexes == (0 - 1)..2

ClientMakeChoiceIndexed ==
    \E choiceIndex \in ChoiceIndexes :
        MakeChoiceIndexed(choiceIndex) /\ UNCHANGED <<driver, encounter, statBlock>>

\* A client of the documented class: the same as Spec except that choices
\* are made by index.
NextIndexed ==
    \/ ClientAddNode
    \/ ClientGetCurrentNode
    \/ ClientMakeChoiceIndexed
    \/ ClientIsAtEnding
    \/ ClientValidateGraph

SpecIndexed == Init /\ [][NextIndexed]_vars

\* ------------------------------- the fixture and the entry point

Node(id, targets, isEnding) ==
    [id |-> id,
     choices |-> [i \in 1..Len(targets) |-> Choice(targets[i])],
     isEnding |-> isEnding]

\* Variant fixture: node 7 ends with a choice left, node 8 has none yet does not end.
adventureNodesOpenEnding ==
    << Node(1, <<2, 2, 2>>, FALSE),
       Node(2, <<3, 5>>, FALSE),
       Node(3, <<4, 5>>, FALSE),
       Node(4, <<5, 6>>, FALSE),
       Node(5, <<7, 8>>, FALSE),
       Node(6, <<>>, TRUE),
       Node(7, <<1>>, TRUE),
       Node(8, <<>>, FALSE) >>

\* The five-room dungeon: eight nodes, in the order of the literal.
adventureNodes ==
    << Node(1, <<2, 2, 2>>, FALSE),
       Node(2, <<3, 5>>, FALSE),
       Node(3, <<4, 5>>, FALSE),
       Node(4, <<5, 6>>, FALSE),
       Node(5, <<7, 8>>, FALSE),
       Node(6, <<>>, TRUE),
       Node(7, <<>>, TRUE),
       Node(8, <<>>, TRUE) >>

\* Longest cursor history kept (the fixture's longest play visits 6 nodes).
MaxPath == 7

\* Ids a player may type: every fixture id, and one that is no node.
PlayerIds == {adventureNodes[i].id : i \in 1..Len(adventureNodes)} \cup {99}

\* const dungeon = new AdventureGraph(1)
InitFixture ==
    /\ pc = "load"
    /\ loaded = 0
    /\ frames = <<>>
    /\ path = <<1>>
    /\ NoEncounter
    /\ statBlock = NoStatBlock
    /\ Constructor(1)

\* adventureNodes.forEach(node => dungeon.addNode(node)), one element a step
LoadNode ==
    /\ pc = "load"
    /\ loaded < Len(adventureNodes)
    /\ AddNode(adventureNodes[loaded + 1])
    /\ loaded' = loaded + 1
    /\ UNCHANGED <<pc, path, frames, encounter, statBlock>>

\* if (!dungeon.validateGraph()) Deno.exit(1)
ValidateLoaded ==
    /\ pc = "load"
    /\ loaded = Len(adventureNodes)
    /\ ValidateGraph
    /\ pc' = IF ret' = Bool(TRUE) THEN "play" ELSE "exit"
    /\ UNCHANGED <<loaded, path, frames, encounter, statBlock>>

\* Once loaded and validated the graph is walked: any id may be tried at
\* any time, and the cursor history grows with each successful choice.
PlayMakeChoice ==
    \E choiceId \in PlayerIds :
        /\ pc = "play"
        /\ MakeChoice(choiceId)
        /\ ret' = Bool(TRUE) => Len(path) < MaxPath
        /\ path' = IF ret' = Bool(TRUE) THEN Append(path, currentNodeId') ELSE path
        /\ UNCHANGED <<pc, loaded, frames, encounter, statBlock>>

PlayGetCurrentNode == pc = "play" /\ GetCurrentNode /\ UNCHANGED <<driver, encounter, statBlock>>

PlayIsAtEnding == pc = "play" /\ IsAtEnding /\ UNCHANGED <<driver, encounter, statBlock>>

NextFixture ==
    \/ LoadNode
    \/ ValidateLoaded
    \/ PlayMakeChoice
    \/ PlayGetCurrentNode
    \/ PlayIsAtEnding

SpecFixture == InitFixture /\ [][NextFixture]_vars

\* ------------------------------------------ runGame and getNextNodeId

\* What prompt() gives: null, or the line typed, a string of characters.
Null == [kind |-> "null"]

Str(chars) == [kind |-> "string", chars |-> chars]

NaN == [kind |-> "NaN"]

DigitChars == <<"0", "1", "2", "3", "4", "5", "6", "7", "8", "9">>

IsDigit(c) == \E i \in DOMAIN DigitChars : DigitChars[i] = c

DigitValue(c) == (CHOOSE i \in DOMAIN DigitChars : DigitChars[i] = c) - 1

\* The value of the longest prefix of digits, given the value read so far.
RECURSIVE ParseDigits(_, _)
ParseDigits(chars, sofar) ==
    IF chars = <<>> \/ ~IsDigit(Head(chars)) THEN sofar
    ELSE ParseDigits(Tail(chars), 10 * sofar + DigitValue(Head(chars)))

\* parseInt(string) for strings of digits and letters: the number the
\* leading digits make, NaN when the string does not start with a digit.
ParseInt(string) ==
    IF string.chars = <<>> \/ ~IsDigit(Head(string.chars)) THEN NaN
    ELSE Number(ParseDigits(string.chars, 0))

\* JavaScript truthiness of a nextNodeId: undefined, null and the empty
\* string are falsy, every other string is truthy.
Truthy(value) == value.kind = "string" /\ value.chars # <<>>

\* choiceIds.includes(parseInt(nextNodeId)); no choice id is NaN
IncludesParsed(choiceIds, parsed) ==
    parsed # NaN /\ Includes(choiceIds, parsed.val)

\* The test of getNextNodeId's if: the input is refused.
Refused(choiceIds, input) ==
    ~Truthy(input) \/ ~IncludesParsed(choiceIds, ParseInt(input))

\* A recursive getNextNodeId call has returned into the innermost of the
\* activations `stack`, which discards the value and tests its own
\* nextNodeId: truthy, it leaves the loop and returns parseInt of it, and
\* so on outwards; falsy, it prompts again.  Gives the activations left and
\* what the outermost returned to runGame, if it did.
RECURSIVE ReturnInto(_)
ReturnInto(stack) ==
    IF stack = <<>> THEN [frames |-> <<>>, returned |-> Undefined]
    ELSE IF ~Truthy(stack[Len(stack)]) THEN [frames |-> stack, returned |-> Undefined]
    ELSE IF Len(stack) = 1 THEN [frames |-> <<>>, returned |-> ParseInt(stack[1])]
    ELSE ReturnInto(SubSeq(stack, 1, Len(stack) - 1))

\* One prompt of the innermost activation and all that follows without
\* further input: the activations after the input has been stored and
\* either a new activation was entered (input refused) or the innermost
\* one left its loop and returned (input accepted).
AfterPrompt(stack, choiceIds, input) ==
    LET stored == [stack EXCEPT ![Len(stack)] = input] IN
    IF Refused(choiceIds, input)
    THEN [frames |-> Append(stored, Undefined), returned |-> Undefined]
    ELSE ReturnInto(stored)

\* Deepest nesting of getNextNodeId activations followed.
MaxDepth == 3

\* Lines the player types: nothing, letters, a number that is no node,
\* digits followed by a letter, and each id the fixture lists.
PlayerInputs ==
    {Null, Str(<<>>), Str(<<"a">>), Str(<<"9", "9">>), Str(<<"2", "a">>)}
        \cup {Str(<<DigitChars[i + 1]>>) : i \in 2..8}

\* runGame(graph) up to its first prompt: return when there is no current
\* node or the game is at an ending, else call getNextNodeId.
RunGame ==
    /\ pc = "play"
    /\ IF GetCurrentNodeValue(nodes, currentNodeId) = Undefined
       THEN GetCurrentNode /\ pc' = "returned" /\ frames' = frames
       ELSE /\ IsAtEnding
            /\ pc' = IF ret' = Bool(TRUE) THEN "returned" ELSE "prompt"
            /\ frames' = IF ret' = Bool(TRUE) THEN frames ELSE <<Undefined>>
    /\ UNCHANGED <<loaded, path, encounter, statBlock>>

\* The player answers a prompt.  While no value reaches runGame the game
\* waits at the next prompt; a value that does is given to makeChoice, and
\* runGame calls itself when that succeeded and returns when it did not.
Prompt ==
    \E input \in PlayerInputs :
        LET choiceIds == MapNextNodeId(MapGet(nodes, currentNodeId).choices)
            after == AfterPrompt(frames, choiceIds, input)
        IN  /\ pc = "prompt"
            /\ Len(after.frames) <= MaxDepth
            /\ frames' = after.frames
            /\ IF after.returned = Undefined
               THEN UNCHANGED <<graph, call, pc, path>>
               ELSE /\ IF after.returned = NaN
                       THEN /\ op' = "makeChoice"
                            /\ arg' = NaN
                            /\ ret' = Bool(FALSE)
                            /\ UNCHANGED graph
                       ELSE MakeChoice(after.returned.val)
                    /\ pc' = IF ret' = Bool(TRUE) THEN "play" ELSE "returned"
                    /\ path' = IF ret' = Bool(TRUE)
                               THEN Append(path, currentNodeId') ELSE path
            /\ UNCHANGED <<loaded, encounter, statBlock>>

NextRunGame ==
    \/ LoadNode
    \/ ValidateLoaded
    \/ RunGame
    \/ Prompt

SpecRunGame == InitFixture /\ [][NextRunGame]_vars

\* -------------------------------------------------- EncounterEvaluator

\* An EncounterMultiplier.  The three multipliers are multiples of one half
\* and are held in halves (1.5 is 3), so that every product is an integer.
Multiplier(n, lt3, to5, ge6) ==
    [numberOfMonsters |-> n, fewerThanThree |-> lt3,
     threeToFive |-> to5, sixOrMore |-> ge6]

\* Variant: the band of three monsters carries the values of the band of one.
ENCOUNTER_MULTIPLIERS_Dip ==
    << Multiplier(1, 3, 2, 1),
       Multiplier(2, 4, 3, 2),
       Multiplier(3, 3, 2, 1),
       Multiplier(7, 7, 5, 4),
       Multiplier(11, 9, 6, 5),
       Multiplier(15, 11, 7, 6) >>

ENCOUNTER_MULTIPLIERS ==
    << Multiplier(1, 3, 2, 1),
       Multiplier(2, 4, 3, 2),
       Multiplier(3, 5, 4, 3),
       Multiplier(7, 7, 5, 4),
       Multiplier(11, 9, 6, 5),
       Multiplier(15, 11, 7, 6) >>

\* ENCOUNTER_MULTIPLIERS[index], index counted from 0; undefined past the end
MultiplierAt(index) ==
    IF index + 1 \in DOMAIN ENCOUNTER_MULTIPLIERS
    THEN ENCOUNTER_MULTIPLIERS[index + 1] ELSE Undefined

\* getActualXP(): opponents.reduce((acc, level) => acc + level, 0)
RECURSIVE ReduceSum(_, _)
ReduceSum(acc, xs) ==
    IF xs = <<>> THEN acc ELSE ReduceSum(acc + Head(xs), Tail(xs))

GetActualXP(opps) == ReduceSum(0, opps)

\* Objects are held by reference.  A reference names the fresh record of
\* one getPartyXPThresholds call or the table row of one level; a heap is
\* the fresh record together with the table.
FreshRef == [kind |-> "fresh"]

RowRef(level) == [kind |-> "row", level |-> level]

Deref(heap, ref) ==
    IF ref = FreshRef THEN heap.fresh ELSE heap.table[ref.level]

Store(heap, ref, object) ==
    IF ref = FreshRef THEN [heap EXCEPT !.fresh = object]
    ELSE [heap EXCEPT !.table[ref.level] = object]

\* getCharacterXPThresholds(level): XP_THRESHOLDS_BY_LEVEL[level], the row
\* itself, or undefined for a level that is no key of the table
GetCharacterXPThresholds(table, level) ==
    IF level \in DOMAIN table THEN RowRef(level) ELSE Undefined

\* Variant: the callback assigns, acc[key] = level[key].
AddIntoOverwriting(heap, acc, row) == Store(heap, acc, Deref(heap, row))

\* The callback of the reduce: acc[key] += level[key] for the four keys of
\* the row, written into the object acc refers to.
AddInto(heap, acc, row) ==
    Store(heap, acc,
          Thresholds(Deref(heap, acc).Easy + Deref(heap, row).Easy,
                     Deref(heap, acc).Medium + Deref(heap, row).Medium,
                     Deref(heap, acc).Hard + Deref(heap, row).Hard,
                     Deref(heap, acc).Deadly + Deref(heap, row).Deadly))

\* The reduce of getPartyXPThresholds over the rows still to visit;
\* Object.keys of an undefined row throws.  Gives the heap it leaves and
\* the reference it returns.
RECURSIVE ReduceThresholds(_, _, _)
\* Variant: a row that is undefined is skipped, as if it were all zero.
ReduceThresholdsSkipping(heap, acc, rows) ==
    IF rows = <<>> THEN [heap |-> heap, result |-> acc]
    ELSE IF Head(rows) = Undefined THEN ReduceThresholds(heap, acc, Tail(rows))
    ELSE ReduceThresholds(AddInto(heap, acc, Head(rows)), acc, Tail(rows))

ReduceThresholds(heap, acc, rows) ==
    IF rows = <<>> THEN [heap |-> heap, result |-> acc]
    ELSE IF Head(rows) = Undefined THEN [heap |-> heap, result |-> TypeError]
    ELSE ReduceThresholds(AddInto(heap, acc, Head(rows)), acc, Tail(rows))

\* Variant: reduce is given no initial value, so the accumulator is the
\* first row of the party (and an empty party throws).
PartyThresholdsStepNoInitial(table, prty) ==
    LET heap == [fresh |-> Thresholds(0, 0, 0, 0), table |-> table]
        rows == [i \in 1..Len(prty) |-> GetCharacterXPThresholds(table, prty[i])]
        done == IF rows = <<>> \/ Head(rows) = Undefined
                THEN [heap |-> heap, result |-> TypeError]
                ELSE ReduceThresholds(heap, Head(rows), Tail(rows))
    IN  [table  |-> done.heap.table,
         result |-> IF done.result = TypeError THEN TypeError
                    ELSE Deref(done.heap, done.result)]

\* getPartyXPThresholds() on the table as it is: a fresh all-zero record,
\* the party mapped to its rows, then the reduce into the fresh record.
\* Gives the table it leaves and the record (or the exception) it returns.
PartyThresholdsStep(table, prty) ==
    LET heap == [fresh |-> Thresholds(0, 0, 0, 0), table |-> table]
        rows == [i \in 1..Len(prty) |-> GetCharacterXPThresholds(table, prty[i])]
        done == ReduceThresholds(heap, FreshRef, rows)
    IN  [table  |-> done.heap.table,
         result |-> IF done.result = TypeError THEN TypeError
                    ELSE Deref(done.heap, done.result)]

GetPartyXPThresholds(table, prty) == PartyThresholdsStep(table, prty).result

\* Variant: the upper test of the callback is <= instead of <.
BandMatchesInclusive(numberOfOpponents, index) ==
    IF ~(numberOfOpponents >= MultiplierAt(index).numberOfMonsters) THEN "false"
    ELSE IF MultiplierAt(index + 1) = Undefined THEN "throw"
    ELSE IF numberOfOpponents <= MultiplierAt(index + 1).numberOfMonsters THEN "true"
    ELSE "false"

\* The callback of find in getMultiplier at one index: "true", "false", or
\* "throw" when the first test passes at the last index and the second
\* reads numberOfMonsters of the undefined element after it.
BandMatches(numberOfOpponents, index) ==
    IF ~(numberOfOpponents >= MultiplierAt(index).numberOfMonsters) THEN "false"
    ELSE IF MultiplierAt(index + 1) = Undefined THEN "throw"
    ELSE IF numberOfOpponents < MultiplierAt(index + 1).numberOfMonsters THEN "true"
    ELSE "false"

\* Array.prototype.find from `index` on: the first element the callback
\* accepts, undefined when it accepts none
RECURSIVE FindBand(_, _)
FindBand(numberOfOpponents, index) ==
    IF MultiplierAt(index) = Undefined THEN Undefined
    ELSE LET found == BandMatches(numberOfOpponents, index)
         IN  IF found = "throw" THEN TypeError
             ELSE IF found = "true" THEN MultiplierAt(index)
             ELSE FindBand(numberOfOpponents, index + 1)

\* getMultiplier()
GetMultiplier(opps) ==
    LET numberOfOpponents == Len(opps) IN
    IF numberOfOpponents >= 15 THEN MultiplierAt(5)
    ELSE FindBand(numberOfOpponents, 0)

\* Variant: a party of three still counts as fewer than three.
GetAdjustedXPThreeAsFew(prty, actualXp, multiplier) ==
    LET partySize == Len(prty) IN
    IF multiplier = Undefined THEN TypeError
    ELSE IF partySize <= 3 THEN Number(actualXp * multiplier.fewerThanThree)
    ELSE IF partySize >= 3 /\ partySize <= 5
         THEN Number(actualXp * multiplier.threeToFive)
    ELSE Number(actualXp * multiplier.sixOrMore)

\* getAdjustedXP(), in halves of an XP; reading a multiplier value of an
\* undefined multiplier throws
GetAdjustedXP(prty, actualXp, multiplier) ==
    LET partySize == Len(prty) IN
    IF multiplier = Undefined THEN TypeError
    ELSE IF partySize < 3 THEN Number(actualXp * multiplier.fewerThanThree)
    ELSE IF partySize >= 3 /\ partySize <= 5
         THEN Number(actualXp * multiplier.threeToFive)
    ELSE Number(actualXp * multiplier.sixOrMore)

\* Variant: the comparisons are > instead of >=.
GetDifficultyExclusive(adjustedXp, partyXpThresholds) ==
    IF adjustedXp > 2 * partyXpThresholds.Deadly THEN "Deadly"
    ELSE IF adjustedXp > 2 * partyXpThresholds.Hard THEN "Hard"
    ELSE IF adjustedXp > 2 * partyXpThresholds.Medium THEN "Medium"
    ELSE "Easy"

\* getDifficulty(): adjustedXp is in halves, so each threshold is doubled
GetDifficulty(adjustedXp, partyXpThresholds) ==
    IF adjustedXp >= 2 * partyXpThresholds.Deadly THEN "Deadly"
    ELSE IF adjustedXp >= 2 * partyXpThresholds.Hard THEN "Hard"
    ELSE IF adjustedXp >= 2 * partyXpThresholds.Medium THEN "Medium"
    ELSE "Easy"

\* The constructor, which evaluate() calls: the five derived fields in the
\* order the code computes them; an exception in any getter leaves the
\* constructor, and evaluate, with that exception.
EvaluateValue(table, prty, opps) ==
    LET actualXp == GetActualXP(opps)
        partyXpThresholds == GetPartyXPThresholds(table, prty)
    IN  IF partyXpThresholds = TypeError THEN TypeError
        ELSE LET multiplier == GetMultiplier(opps) IN
             IF multiplier = TypeError THEN TypeError
             ELSE LET adjustedXp == GetAdjustedXP(prty, actualXp, multiplier) IN
                  IF adjustedXp = TypeError THEN TypeError
                  ELSE [kind |-> "Evaluation",
                        party |-> prty,
                        opponents |-> opps,
                        actualXp |-> actualXp,
                        partyXpThresholds |-> partyXpThresholds,
                        multiplier |-> multiplier,
                        adjustedXp |-> adjustedXp.val,
                        difficulty |-> GetDifficulty(adjustedXp.val, partyXpThresholds)]

\* The table an evaluation leaves: getPartyXPThresholds is the only getter
\* that writes to an object.
TableAfterEvaluate(table, prty) == PartyThresholdsStep(table, prty).table

\* ------------------------------- specification: evaluating encounters

\* Lists are free up to the first bound and grow to the second only by
\* repeating their last element.
MaxFreeParty == 2

MaxPartySize == 6

MaxFreeOpponents == 2

MaxOpponents == 16

\* Levels a mixed party is made of: low, high, and one with no table row.
MixedLevels == {1, 2, 20, 21}

\* Levels of a one-level party: every table key and both neighbours.
AllLevels == 0..21

OpponentXps == {0, 25, 200}

Last(xs) == xs[Len(xs)]

InitEval ==
    /\ NoEncounter
    /\ statBlock = NoStatBlock
    /\ pc = "encounter"
    /\ loaded = 0
    /\ frames = <<>>
    /\ path = <<>>
    /\ Constructor(1)

\* The caller puts one more level in the party list.
AddPartyMember ==
    \E level \in AllLevels :
        /\ \/ party = <<>>
           \/ /\ Len(party) < MaxFreeParty
              /\ level \in MixedLevels
              /\ \A i \in 1..Len(party) : party[i] \in MixedLevels
           \/ /\ party # <<>>
              /\ Len(party) < MaxPartySize
              /\ level = Last(party)
        /\ party' = Append(party, level)
        /\ evaluation' = NotEvaluated
        /\ UNCHANGED <<opponents, thresholdsByLevel, graph, call, driver, statBlock>>

\* The caller puts one more XP value in the opponent list.
AddOpponent ==
    \E xp \in OpponentXps :
        /\ \/ Len(opponents) < MaxFreeOpponents
           \/ /\ opponents # <<>>
              /\ Len(opponents) < MaxOpponents
              /\ xp = Last(opponents)
        /\ opponents' = Append(opponents, xp)
        /\ evaluation' = NotEvaluated
        /\ UNCHANGED <<party, thresholdsByLevel, graph, call, driver, statBlock>>

\* EncounterEvaluator.evaluate({party, opponents}), a first or a further
\* time for the same encounter
Evaluate ==
    /\ evaluation' = EvaluateValue(thresholdsByLevel, party, opponents)
    /\ thresholdsByLevel' = TableAfterEvaluate(thresholdsByLevel, party)
    /\ UNCHANGED <<party, opponents, graph, call, driver, statBlock>>

\* The caller starts over with another encounter.
NewEncounter ==
    /\ party # <<>> \/ opponents # <<>>
    /\ party' = <<>>
    /\ opponents' = <<>>
    /\ evaluation' = NotEvaluated
    /\ UNCHANGED <<thresholdsByLevel, graph, call, driver, statBlock>>

NextEval ==
    \/ AddPartyMember
    \/ AddOpponent
    \/ Evaluate
    \/ NewEncounter

SpecEval == InitEval /\ [][NextEval]_vars

\* --------------------- specification: encounters that grow, valid levels

\* Levels of the parties that are compared with a larger one: the lowest,
\* a middle and the highest row of the table.
ComparedLevels == {1, 10, 20}

\* The caller puts one more valid level in the party list, under the same
\* growth rule as AddPartyMember.
AddValidMember ==
    \E level \in ComparedLevels :
        /\ \/ Len(party) < MaxFreeParty
           \/ /\ party # <<>>
              /\ Len(party) < MaxPartySize
              /\ level = Last(party)
        /\ party' = Append(party, level)
        /\ evaluation' = NotEvaluated
        /\ UNCHANGED <<opponents, thresholdsByLevel, graph, call, driver, statBlock>>

NextGrow ==
    \/ AddValidMember
    \/ AddOpponent
    \/ Evaluate
    \/ NewEncounter

SpecGrow == InitEval /\ [][NextGrow]_vars

\* ------------------ specification: every short encounter, in any order

\* Longest party and longest opponent list of an encounter given whole.
MaxListLen == 3

PermutedLevels == {1, 20, 21}

PermutedXps == {0, 25}

\* Every list over a set, up to a length
ListsUpTo(values, maxLen) == UNION {[1..n -> values] : n \in 0..maxLen}

\* evaluate is called on an encounter literal: any party and any opponent
\* list up to MaxListLen.
InitWhole ==
    /\ party \in ListsUpTo(PermutedLevels, MaxListLen)
    /\ opponents \in ListsUpTo(PermutedXps, MaxListLen)
    /\ evaluation = NotEvaluated
    /\ thresholdsByLevel = XP_THRESHOLDS_BY_LEVEL
    /\ statBlock = NoStatBlock
    /\ pc = "encounter"
    /\ loaded = 0
    /\ frames = <<>>
    /\ path = <<>>
    /\ Constructor(1)

NextWhole == Evaluate

SpecWhole == InitWhole /\ [][NextWhole]_vars

\* ---------------------------------------------------------- StatBlock

\* A StatBlock, as far as its hit-point methods read or write it.  The
\* three DamageType arrays are only ever asked includes(type), so each is
\* held as the set of its elements.
StatBlockOf(hitPoints, maxHitPoints, temporaryHitPoints, damageResistances, damageImmunities, damageVulnerabilities) ==
    [kind |-> "StatBlock",
     hitPoints |-> hitPoints,
     maxHitPoints |-> maxHitPoints,
     temporaryHitPoints |-> temporaryHitPoints,
     damageResistances |-> damageResistances,
     damageImmunities |-> damageImmunities,
     damageVulnerabilities |-> damageVulnerabilities]

Max(a, b) == IF a >= b THEN a ELSE b

Min(a, b) == IF a <= b THEN a ELSE b

\* damageTemporaryHitPoints(amount): the StatBlock it leaves and the number
\* it returns
DamageTemporaryHitPoints(sb, amount) ==
    IF amount <= sb.temporaryHitPoints
    THEN [stat |-> [sb EXCEPT !.temporaryHitPoints = sb.temporaryHitPoints - amount],
          returned |-> amount]
    ELSE LET rest == amount - sb.temporaryHitPoints
             damageTaken == sb.temporaryHitPoints
         IN  [stat |-> [sb EXCEPT !.temporaryHitPoints = 0,
                                  !.hitPoints = Max(0, sb.hitPoints - rest)],
              returned |-> damageTaken + rest]

\* The amount after immunity, resistance or vulnerability has been looked
\* at, in the order of the else-if chain (Math.floor of a half is \div).
AdjustedAmount(sb, amount, type) ==
    IF type \in sb.damageResistances THEN amount \div 2
    ELSE IF type \in sb.damageVulnerabilities THEN amount * 2
    ELSE amount

\* takeDamage(amount, type)
TakeDamageStep(sb, amount, type) ==
    IF type \in sb.damageImmunities THEN [stat |-> sb, returned |-> 0]
    ELSE LET adjusted == AdjustedAmount(sb, amount, type) IN
         IF sb.temporaryHitPoints > 0
         THEN DamageTemporaryHitPoints(sb, adjusted)
         ELSE LET prevHP == sb.hitPoints
                  after == [sb EXCEPT !.hitPoints = Max(0, sb.hitPoints - adjusted)]
              IN  [stat |-> after, returned |-> prevHP - after.hitPoints]

\* Variant: heal has no test for 0 hit points.
HealStepReviving(sb, amount) ==
    LET prevHP == sb.hitPoints
        after == [sb EXCEPT !.hitPoints = Min(sb.maxHitPoints, sb.hitPoints + amount)]
    IN  [stat |-> after, returned |-> after.hitPoints - prevHP]

\* heal(amount)
HealStep(sb, amount) ==
    IF sb.hitPoints = 0 THEN [stat |-> sb, returned |-> 0]
    ELSE LET prevHP == sb.hitPoints
             after == [sb EXCEPT !.hitPoints = Min(sb.maxHitPoints, sb.hitPoints + amount)]
         IN  [stat |-> after, returned |-> after.hitPoints - prevHP]

\* Variant: temporary hit points are replaced by the amount.
AddTemporaryHitPointsReplacing(sb, amount) ==
    [sb EXCEPT !.temporaryHitPoints = amount]

\* addTemporaryHitPoints(amount)
AddTemporaryHitPointsStep(sb, amount) ==
    [sb EXCEPT !.temporaryHitPoints = Max(sb.temporaryHitPoints, amount)]

\* isAlive()
IsAliveValue(sb) == Bool(sb.hitPoints > 0)

\* ---------------------------------- specification: a StatBlock in combat

\* Largest hitPoints a StatBlock is constructed with.
MaxHitPoints == 3

\* Largest amount passed to takeDamage, heal and addTemporaryHitPoints.
MaxAmount == 4

Amounts == 0..MaxAmount

DamageTypes == {"fire", "cold"}

\* new StatBlock(..., hitPoints, ...) of a subclass that has filled in its
\* resistances, immunities and vulnerabilities
InitStatBlock ==
    /\ NoEncounter
    /\ pc = "combat"
    /\ loaded = 0
    /\ frames = <<>>
    /\ path = <<>>
    /\ Constructor(1)
    /\ \E hitPoints \in 0..MaxHitPoints :
       \E resistances \in SUBSET DamageTypes :
       \E immunities \in SUBSET DamageTypes :
       \E vulnerabilities \in SUBSET DamageTypes :
           statBlock = StatBlockOf(hitPoints, hitPoints, 0,
                                   resistances, immunities, vulnerabilities)

TakeDamage ==
    \E amount \in Amounts : \E type \in DamageTypes :
        LET r == TakeDamageStep(statBlock, amount, type) IN
        /\ op' = "takeDamage"
        /\ arg' = <<amount, type>>
        /\ ret' = Number(r.returned)
        /\ statBlock' = r.stat
        /\ UNCHANGED <<graph, driver, encounter>>

Heal ==
    \E amount \in Amounts :
        LET r == HealStep(statBlock, amount) IN
        /\ op' = "heal"
        /\ arg' = amount
        /\ ret' = Number(r.returned)
        /\ statBlock' = r.stat
        /\ UNCHANGED <<graph, driver, encounter>>

AddTemporaryHitPoints ==
    \E amount \in Amounts :
        /\ op' = "addTemporaryHitPoints"
        /\ arg' = amount
        /\ ret' = Void
        /\ statBlock' = AddTemporaryHitPointsStep(statBlock, amount)
        /\ UNCHANGED <<graph, driver, encounter>>

IsAlive ==
    /\ op' = "isAlive"
    /\ arg' = 0
    /\ ret' = IsAliveValue(statBlock)
    /\ UNCHANGED <<graph, driver, encounter, statBlock>>

NextStatBlock ==
    \/ TakeDamage
    \/ Heal
    \/ AddTemporaryHitPoints
    \/ IsAlive

SpecStatBlock == InitStatBlock /\ [][NextStatBlock]_vars

\* -------------------------------------------- AdventureGraph: claims

\* The choice targets of the node under the cursor, as a set.
TargetsOf(m, cur) ==
    {m[cur].choices[i].nextNodeId : i \in 1..Len(m[cur].choices)}

\* C1: makeChoice(t) returns true exactly when the current node is in the
\* mapping and t is the nextNodeId of one of its choices, false otherwise.
C1_MakeChoiceTrueIff ==
    [][op' = "makeChoice" =>
         ret' = Bool(/\ currentNodeId \in DOMAIN nodes
                     /\ arg' \in TargetsOf(nodes, currentNodeId))]_vars

C1_Witness ==
    /\ op = "makeChoice"
    /\ ret = Bool(TRUE)
    /\ currentNodeId = arg

\* C2: a makeChoice that returns false leaves the cursor, the result of
\* getCurrentNode() and the node mapping as they were.
C2_FailedChoiceKeepsCursor ==
    [][op' = "makeChoice" /\ ret' = Bool(FALSE) =>
         /\ currentNodeId' = currentNodeId
         /\ nodes' = nodes
         /\ GetCurrentNodeValue(nodes', currentNodeId')
              = GetCurrentNodeValue(nodes, currentNodeId)]_vars

C2_Witness ==
    /\ op = "makeChoice"
    /\ ret = Bool(FALSE)
    /\ currentNodeId \in DOMAIN nodes
    /\ nodes[currentNodeId].choices # <<>>
    /\ arg \notin TargetsOf(nodes, currentNodeId)

\* C3 as stated: in every graph, validated or not, a makeChoice(id) that
\* returns true is followed by a getCurrentNode() returning a node with
\* that id.
C3_Original ==
    op = "makeChoice" /\ ret = Bool(TRUE) =>
        /\ GetCurrentNodeValue(nodes, currentNodeId) # Undefined
        /\ GetCurrentNodeValue(nodes, currentNodeId).id = arg

\* C3 amended: a makeChoice(id) that returns true leaves the cursor on id;
\* the following getCurrentNode() returns a node with that id when id is a
\* key of the mapping (as it is whenever validateGraph() holds), and the
\* not-found result when it is not.
C3_SuccessMovesCursor ==
    op = "makeChoice" /\ ret = Bool(TRUE) =>
        /\ currentNodeId = arg
        /\ arg \in DOMAIN nodes =>
             /\ GetCurrentNodeValue(nodes, currentNodeId) # Undefined
             /\ GetCurrentNodeValue(nodes, currentNodeId).id = arg
        /\ ValidateGraphValue(nodes) = Bool(TRUE) => arg \in DOMAIN nodes
        /\ arg \notin DOMAIN nodes =>
             GetCurrentNodeValue(nodes, currentNodeId) = Undefined

C3_Witness ==
    /\ op = "makeChoice"
    /\ ret = Bool(TRUE)
    /\ arg \in DOMAIN nodes
    /\ GetCurrentNodeValue(nodes, currentNodeId).id = arg
    /\ ValidateGraphValue(nodes) = Bool(FALSE)

\* C4: validateGraph() returns true exactly when every choice of every
\* node targets a key of the mapping (nothing is asked of connectivity,
\* reachability or cycles; no nodes or no choices validate as true).
C4_ValidateIffAllResolve ==
    op = "validateGraph" =>
        ret = Bool(\A k \in DOMAIN nodes :
                     \A i \in 1..Len(nodes[k].choices) :
                        nodes[k].choices[i].nextNodeId \in DOMAIN nodes)

C4_Witness ==
    /\ op = "validateGraph"
    /\ ret = Bool(FALSE)
    /\ \E k \in DOMAIN nodes :
          /\ \A j \in DOMAIN nodes : j <= k
          /\ \E j \in DOMAIN nodes : j < k
          /\ \E i \in 1..Len(nodes[k].choices) :
                nodes[k].choices[i].nextNodeId \notin DOMAIN nodes
    /\ \A k \in DOMAIN nodes :
          (\E j \in DOMAIN nodes : k < j) =>
              \A i \in 1..Len(nodes[k].choices) :
                 nodes[k].choices[i].nextNodeId \in DOMAIN nodes

\* C5: only a makeChoice that returns true changes the cursor; only
\* addNode changes the node mapping.
C5_CursorFrame ==
    [][/\ currentNodeId' # currentNodeId =>
            op' = "makeChoice" /\ ret' = Bool(TRUE)
       /\ op' \in {"validateGraph", "getCurrentNode", "isAtEnding", "makeChoice"} =>
            nodes' = nodes]_vars

C5_Witness ==
    /\ op = "makeChoice"
    /\ ret = Bool(TRUE)
    /\ \E startingNodeId \in NodeIds \ {currentNodeId} :
          /\ startingNodeId \in DOMAIN nodes
          /\ currentNodeId \in TargetsOf(nodes, startingNodeId)

\* C6: addNode(n) never fails and is last-write-wins: afterwards the entry
\* for n.id is n, every other entry is as before, and no operation ever
\* removes an entry.
C6_AddNodeLastWriteWins ==
    [][/\ op' = "addNode" =>
            /\ ret' = Void
            /\ DOMAIN nodes' = DOMAIN nodes \cup {arg'.id}
            /\ nodes'[arg'.id] = arg'
            /\ \A k \in DOMAIN nodes \ {arg'.id} : nodes'[k] = nodes[k]
       /\ DOMAIN nodes \subseteq DOMAIN nodes']_vars

C6_Witness ==
    /\ op = "addNode"
    /\ Cardinality(DOMAIN nodes) = MaxNodes
    /\ nodes[arg.id] = arg
    /\ arg.choices # <<>>

\* C7: with no node under the cursor, getCurrentNode() returns the
\* not-found result, isAtEnding() returns false and makeChoice returns
\* false, and none throws; with a node under the cursor isAtEnding()
\* returns that node's isEnding flag.
C7_AbsentNodeIsNormal ==
    [][/\ ret' # TypeError
       /\ currentNodeId \notin DOMAIN nodes =>
            /\ op' = "getCurrentNode" => ret' = Undefined
            /\ op' = "isAtEnding" => ret' = Bool(FALSE)
            /\ op' = "makeChoice" => ret' = Bool(FALSE)
       /\ currentNodeId \in DOMAIN nodes /\ op' = "isAtEnding" =>
            ret' = Bool(nodes[currentNodeId].isEnding)]_vars

C7_Witness ==
    /\ op = "isAtEnding"
    /\ ret = Bool(FALSE)
    /\ nodes # <<>>
    /\ currentNodeId \notin DOMAIN nodes

\* The walk of the spec's scenario: node 1, then the choices 2, 3, 4, 5, 7.
ScenarioPath == <<1, 2, 3, 4, 5, 7>>

\* C8: on the loaded fixture started at node 1, validateGraph() is true;
\* makeChoice(2) from node 1 succeeds and moves to node 2; makeChoice(99)
\* from node 2 fails and stays on node 2; the choices 2, 3, 4, 5, 7 in turn
\* all succeed and end where isAtEnding() is true.
C8_FixtureScenario ==
    [][/\ op' = "validateGraph" /\ loaded' = Len(adventureNodes) => ret' = Bool(TRUE)
       /\ op' = "makeChoice" /\ currentNodeId = 1 /\ arg' = 2 =>
            ret' = Bool(TRUE) /\ currentNodeId' = 2
       /\ op' = "makeChoice" /\ currentNodeId = 2 /\ arg' = 99 =>
            ret' = Bool(FALSE) /\ currentNodeId' = 2
       /\ \A i \in 1..(Len(ScenarioPath) - 1) :
            (/\ op' = "makeChoice"
             /\ path = SubSeq(ScenarioPath, 1, i)
             /\ arg' = ScenarioPath[i + 1]) =>
                /\ ret' = Bool(TRUE)
                /\ path' = SubSeq(ScenarioPath, 1, i + 1)
                /\ currentNodeId' = ScenarioPath[i + 1]
       /\ op' = "isAtEnding" /\ path' = ScenarioPath => ret' = Bool(TRUE)]_vars

C8_Witness ==
    /\ pc = "play"
    /\ path = ScenarioPath
    /\ currentNodeId = 7
    /\ op = "isAtEnding"
    /\ ret = Bool(TRUE)

\* C9: in the loaded fixture a node has isEnding = true exactly when it
\* has no choices.
C9_EndingIffNoChoices ==
    \A k \in DOMAIN nodes : nodes[k].isEnding <=> nodes[k].choices = <<>>

C9_Witness ==
    /\ pc = "play"
    /\ Cardinality(DOMAIN nodes) = Len(adventureNodes)
    /\ \E k \in DOMAIN nodes : nodes[k].isEnding
    /\ \E k \in DOMAIN nodes : ~nodes[k].isEnding

\* ---------------------------------------- EncounterEvaluator: claims

ValidParty == \A i \in 1..Len(party) : party[i] \in 1..20

\* C10: for every party of levels in 1..20 and every list of non-negative
\* opponent XP values, of any length including none, evaluate raises no
\* error and returns an Evaluation carrying the five derived fields.
C10_EvaluateNeverThrows ==
    evaluation # NotEvaluated /\ ValidParty =>
        /\ evaluation # TypeError
        /\ {"actualXp", "partyXpThresholds", "multiplier", "adjustedXp",
            "difficulty"} \subseteq DOMAIN evaluation

\* The sum of a list of numbers, last element first.
RECURSIVE SumOf(_)
SumOf(xs) ==
    IF xs = <<>> THEN 0 ELSE xs[Len(xs)] + SumOf(SubSeq(xs, 1, Len(xs) - 1))

Evaluated == evaluation # NotEvaluated

IsEvaluation == evaluation # NotEvaluated /\ evaluation # TypeError

\* C11: for all parties and all opponent lists, the actualXp of the
\* evaluation is the sum of the opponent values, 0 for an empty list.
C11_ActualXpIsSum ==
    Evaluated /\ ValidParty =>
        /\ evaluation # TypeError
        /\ evaluation.actualXp = SumOf(opponents)

\* C12: with zero opponents the band search is skipped and the evaluation
\* has adjustedXp = 0 and actualXp = 0.
C12_ZeroOpponentsGiveZero ==
    Evaluated /\ ValidParty /\ opponents = <<>> =>
        /\ evaluation # TypeError
        /\ evaluation.adjustedXp = 0
        /\ evaluation.actualXp = 0


\* The bands of ENCOUNTER_MULTIPLIERS whose threshold is at most n.
BandsUpTo(n) ==
    {ENCOUNTER_MULTIPLIERS[i] : i \in {j \in DOMAIN ENCOUNTER_MULTIPLIERS :
                                         ENCOUNTER_MULTIPLIERS[j].numberOfMonsters <= n}}

\* The band with the largest threshold that is at most n (n >= 1).
LargestBandUpTo(n) ==
    CHOOSE b \in BandsUpTo(n) :
        \A c \in BandsUpTo(n) : c.numberOfMonsters <= b.numberOfMonsters

\* C13: for an encounter with n >= 1 opponents (and a party of valid
\* levels), the evaluation's multiplier is the band with the largest
\* numberOfMonsters that is at most n: 1 -> 1, 2 -> 2, 3..6 -> 3,
\* 7..10 -> 7, 11..14 -> 11, and the final band (15) from 15 on.  The band
\* is a function of the count alone, whatever the XP values are.
C13_BandByCount ==
    LET n == Len(opponents) IN
    Evaluated /\ ValidParty /\ n >= 1 =>
        /\ evaluation # TypeError
        /\ evaluation.multiplier = LargestBandUpTo(n)
        /\ evaluation.multiplier.numberOfMonsters =
               IF n >= 15 THEN 15 ELSE IF n >= 11 THEN 11 ELSE IF n >= 7 THEN 7
               ELSE IF n >= 3 THEN 3 ELSE n
        /\ n >= 15 => evaluation.multiplier = ENCOUNTER_MULTIPLIERS[Len(ENCOUNTER_MULTIPLIERS)]

\* Fourteen opponents have been evaluated: the band of 11, found at the last
\* index at which find's callback can answer.
C13_Witness ==
    /\ IsEvaluation
    /\ Len(opponents) = 14
    /\ evaluation.multiplier.numberOfMonsters = 11

\* The sum of one tier over the rows of a party, last member first.
RECURSIVE TierSum(_, _, _)
TierSum(table, prty, tier) ==
    IF prty = <<>> THEN 0
    ELSE table[prty[Len(prty)]][tier]
             + TierSum(table, SubSeq(prty, 1, Len(prty) - 1), tier)

\* C14: for a party whose levels are all in 1..20, partyXpThresholds is,
\* tier by tier, the sum of the members' rows of XP_THRESHOLDS_BY_LEVEL; a
\* party of one gets that level's row and an empty party gets all zeros.
C14_PartyThresholdsAreSums ==
    ValidParty =>
        LET sums == GetPartyXPThresholds(thresholdsByLevel, party) IN
        /\ sums # TypeError
        /\ DOMAIN sums = {"Easy", "Medium", "Hard", "Deadly"}
        /\ \A tier \in DOMAIN sums :
               sums[tier] = TierSum(XP_THRESHOLDS_BY_LEVEL, party, tier)
        /\ Len(party) = 1 => sums = XP_THRESHOLDS_BY_LEVEL[party[1]]
        /\ party = <<>> => sums = Thresholds(0, 0, 0, 0)
        /\ IsEvaluation => evaluation.partyXpThresholds = sums

\* A party of mixed levels has been evaluated and its Easy threshold is the
\* sum of two different rows.
C14_Witness ==
    /\ IsEvaluation
    /\ Len(party) >= 2
    /\ party[1] # party[2]
    /\ evaluation.partyXpThresholds.Easy
           = XP_THRESHOLDS_BY_LEVEL[party[1]].Easy + XP_THRESHOLDS_BY_LEVEL[party[2]].Easy


\* The value of a band that a party of the given size selects, in halves.
ValueForPartySize(band, partySize) ==
    IF partySize \in {0, 1, 2} THEN band.fewerThanThree
    ELSE IF partySize \in {3, 4, 5} THEN band.threeToFive
    ELSE band.sixOrMore

\* C15: with at least one opponent (and a party of valid levels),
\* adjustedXp is actualXp times the one value of the selected band that the
\* party size picks: fewerThanThree below 3 members, threeToFive for 3, 4
\* or 5, sixOrMore from 6 on.  Two level-1 characters against four 25-XP
\* opponents give 250, four against the same give 200, six against six
\* 25-XP opponents give 225 (adjustedXp is held in halves).
C15_AdjustedXpByPartySize ==
    Evaluated /\ ValidParty /\ Len(opponents) >= 1 =>
        /\ evaluation # TypeError
        /\ evaluation.adjustedXp =
               SumOf(opponents)
                   * ValueForPartySize(LargestBandUpTo(Len(opponents)), Len(party))
        /\ party = <<1, 1>> /\ opponents = <<25, 25, 25, 25>>
               => evaluation.adjustedXp = 2 * 250
        /\ party = <<1, 1, 1, 1>> /\ opponents = <<25, 25, 25, 25>>
               => evaluation.adjustedXp = 2 * 200
        /\ party = <<1, 1, 1, 1, 1, 1>> /\ opponents = <<25, 25, 25, 25, 25, 25>>
               => 2 * evaluation.adjustedXp = 2 * 2 * 225

\* A party of exactly three has been evaluated against a positive XP total:
\* the threeToFive value, which differs from the other two, was used.
C15_Witness ==
    /\ IsEvaluation
    /\ Len(party) = 3
    /\ evaluation.actualXp > 0
    /\ evaluation.adjustedXp = evaluation.actualXp * evaluation.multiplier.threeToFive
    /\ evaluation.adjustedXp # evaluation.actualXp * evaluation.multiplier.fewerThanThree

TierRank(tier) ==
    IF tier = "Deadly" THEN 4 ELSE IF tier = "Hard" THEN 3
    ELSE IF tier = "Medium" THEN 2 ELSE 1

\* The tiers above Easy whose threshold the adjusted XP (in halves) meets.
TiersMet(adjustedXp, thresholds) ==
    {tier \in {"Medium", "Hard", "Deadly"} : 2 * thresholds[tier] <= adjustedXp}

\* C16: difficulty is the highest of Deadly, Hard, Medium whose party
\* threshold is <= adjustedXp, equality included, and Easy when adjustedXp
\* is below the Medium threshold, below the Easy threshold too.
C16_DifficultyIsHighestTierMet ==
    IsEvaluation =>
        LET met == TiersMet(evaluation.adjustedXp, evaluation.partyXpThresholds) IN
        /\ met # {} =>
               /\ evaluation.difficulty \in met
               /\ \A tier \in met : TierRank(tier) <= TierRank(evaluation.difficulty)
        /\ met = {} => evaluation.difficulty = "Easy"
        /\ evaluation.adjustedXp < 2 * evaluation.partyXpThresholds.Medium
               => evaluation.difficulty = "Easy"

\* An evaluation whose adjusted XP is exactly the Medium threshold, below
\* the Hard one, came out Medium.
C16_Witness ==
    /\ IsEvaluation
    /\ evaluation.adjustedXp = 2 * evaluation.partyXpThresholds.Medium
    /\ evaluation.adjustedXp < 2 * evaluation.partyXpThresholds.Hard
    /\ evaluation.difficulty = "Medium"


\* C17: evaluation is deterministic and idempotent.  Every step leaves
\* XP_THRESHOLDS_BY_LEVEL as it was written (the sum goes into a fresh
\* record, never into a row); what an evaluation gave is what the pristine
\* table gives for that {party, opponents}, so it does not depend on the
\* evaluations made before it; and evaluating the same encounter again
\* gives the same result, field for field.  ENCOUNTER_MULTIPLIERS is only
\* ever read by the evaluator.
C17_EvaluationIsDeterministic ==
    [][/\ thresholdsByLevel' = XP_THRESHOLDS_BY_LEVEL
       /\ Evaluated' =>
              evaluation' = EvaluateValue(XP_THRESHOLDS_BY_LEVEL, party', opponents')
       /\ Evaluated /\ Evaluated' /\ party' = party /\ opponents' = opponents
              => evaluation' = evaluation]_vars

\* A party of several members, the first of level 1, has been evaluated,
\* and the row of level 1 is still the one written in the table.
C17_Witness ==
    /\ IsEvaluation
    /\ Len(party) >= 2
    /\ party[1] = 1
    /\ evaluation.partyXpThresholds # thresholdsByLevel[1]
    /\ thresholdsByLevel[1] = Thresholds(25, 50, 75, 100)

\* C18: when the party holds a level outside 1..20, evaluate gives no
\* Evaluation: the missing row ends the call with an exception, and no
\* thresholds or difficulty are computed from it.
C18_MissingRowIsAnError ==
    Evaluated /\ ~ValidParty => evaluation = TypeError

\* A party with a level that has no row has been evaluated against at least
\* one opponent, and the call threw.
C18_Witness ==
    /\ Evaluated
    /\ \E i \in 1..Len(party) : party[i] \notin 1..20
    /\ \E i \in 1..Len(party) : party[i] \in 1..20
    /\ opponents # <<>>
    /\ evaluation = TypeError

StrictlyIncreasing(thresholds) ==
    /\ thresholds.Easy < thresholds.Medium
    /\ thresholds.Medium < thresholds.Hard
    /\ thresholds.Hard < thresholds.Deadly

\* C19: XP_THRESHOLDS_BY_LEVEL has a row for each level 1..20, every row
\* has Easy < Medium < Hard < Deadly, each tier is non-decreasing from one
\* level to the next, and so the combined thresholds of every evaluated
\* non-empty party of valid levels are strictly increasing too.
C19_ThresholdsAreOrdered ==
    /\ DOMAIN thresholdsByLevel = 1..20
    /\ \A level \in 1..20 : StrictlyIncreasing(thresholdsByLevel[level])
    /\ \A level \in 1..19 : \A tier \in {"Easy", "Medium", "Hard", "Deadly"} :
           thresholdsByLevel[level][tier] <= thresholdsByLevel[level + 1][tier]
    /\ ValidParty /\ party # <<>> =>
           StrictlyIncreasing(GetPartyXPThresholds(thresholdsByLevel, party))
    /\ IsEvaluation /\ party # <<>> => StrictlyIncreasing(evaluation.partyXpThresholds)

\* A party of the lowest and the highest level has been evaluated; its
\* combined thresholds are in strict order.
C19_Witness ==
    /\ IsEvaluation
    /\ party = <<1, 20>>
    /\ StrictlyIncreasing(evaluation.partyXpThresholds)


\* C20: runGame, started on the validated fixture with its starting node
\* present, returns only when the graph is at an ending, whatever the player
\* types: empty, non-numeric and unlisted inputs never end the game early.
C20_RunGameReturnsOnlyAtEnding ==
    pc = "returned" => IsAtEndingValue(nodes, currentNodeId) = Bool(TRUE)


\* C21: the documented makeChoice(choiceIndex) keeps the contract: when the
\* index addresses a choice of the current node the cursor moves to that
\* choice's nextNodeId and true is returned; for every other integer index
\* (too large or negative), and when the current node is absent, false is
\* returned, nothing is thrown and the cursor stays.
C21_IndexedChoiceKeepsContract ==
    [][op' = "makeChoiceIndexed" =>
         IF /\ currentNodeId \in DOMAIN nodes
            /\ arg' + 1 \in DOMAIN nodes[currentNodeId].choices
         THEN /\ ret' = Bool(TRUE)
              /\ currentNodeId' = nodes[currentNodeId].choices[arg' + 1].nextNodeId
         ELSE /\ ret' = Bool(FALSE)
              /\ currentNodeId' = currentNodeId]_vars


\* ------------------------------------------------- StatBlock: claims

\* What stands between the entity and 0: temporary plus real hit points.
Pool(sb) == sb.temporaryHitPoints + sb.hitPoints

\* C22: takeDamage returns the damage actually dealt: for every amount >= 0
\* and every type the number returned is the decrease of
\* temporaryHitPoints + hitPoints made by the call, also when there are
\* temporary hit points and the damage exceeds what is left of both; and
\* for a type the entity is immune to, 0 is returned and nothing changes.
C22_TakeDamageReturnsDamageDealt ==
    [][op' = "takeDamage" =>
         /\ ret' = Number(Pool(statBlock) - Pool(statBlock'))
         /\ arg'[2] \in statBlock.damageImmunities =>
                ret' = Number(0) /\ statBlock' = statBlock]_vars

\* C23: a StatBlock at 0 hit points is not healed: heal returns 0, and
\* whatever is called next (heal, takeDamage, addTemporaryHitPoints with
\* non-negative amounts, isAlive) hitPoints stays 0 and isAlive() is false.
C23_NoHealingAtZero ==
    [][statBlock.hitPoints = 0 =>
         /\ statBlock'.hitPoints = 0
         /\ IsAliveValue(statBlock') = Bool(FALSE)
         /\ op' = "heal" => ret' = Number(0)
         /\ op' = "isAlive" => ret' = Bool(FALSE)]_vars

\* A StatBlock built with hit points to regain is at 0, and a heal of a
\* positive amount has just returned 0.
C23_Witness ==
    /\ statBlock # NoStatBlock
    /\ statBlock.maxHitPoints > 0
    /\ statBlock.hitPoints = 0
    /\ op = "heal"
    /\ arg > 0
    /\ ret = Number(0)

\* C30: for a StatBlock constructed with hitPoints >= 0, across every call
\* of takeDamage, heal and addTemporaryHitPoints with amounts >= 0:
\* 0 <= hitPoints <= maxHitPoints, temporaryHitPoints >= 0, maxHitPoints
\* does not change, and addTemporaryHitPoints leaves temporaryHitPoints at
\* the maximum of its old value and the amount, never lower than before.
C30_HitPointsStayInRange ==
    [][/\ statBlock.hitPoints \in 0..statBlock.maxHitPoints
       /\ statBlock'.hitPoints \in 0..statBlock'.maxHitPoints
       /\ statBlock.temporaryHitPoints >= 0
       /\ statBlock'.temporaryHitPoints >= 0
       /\ statBlock'.maxHitPoints = statBlock.maxHitPoints
       /\ op' = "addTemporaryHitPoints" =>
              /\ statBlock'.temporaryHitPoints >= statBlock.temporaryHitPoints
              /\ statBlock'.temporaryHitPoints
                     = Max(statBlock.temporaryHitPoints, arg')]_vars

\* addTemporaryHitPoints was called with less than the entity had, which
\* it kept, on an entity that has been damaged but is alive.
C30_Witness ==
    /\ statBlock # NoStatBlock
    /\ op = "addTemporaryHitPoints"
    /\ arg > 0
    /\ arg < statBlock.temporaryHitPoints
    /\ statBlock.hitPoints > 0
    /\ statBlock.hitPoints < statBlock.maxHitPoints


\* ------------------------------------ AdventureGraph: further claims

\* C24: when validateGraph() is true and getCurrentNode() gives a node, a
\* makeChoice call, successful or not, leaves the mapping as it was and
\* getCurrentNode() still gives a node; so through any sequence of
\* makeChoice calls with no addNode in between the cursor stays on mapped
\* ids.
C24_CursorStaysMapped ==
    [][/\ op' = "makeChoice"
       /\ GetCurrentNodeValue(nodes, currentNodeId) # Undefined
       /\ ValidateGraphValue(nodes) = Bool(TRUE)
       => /\ nodes' = nodes
          /\ currentNodeId' \in DOMAIN nodes'
          /\ GetCurrentNodeValue(nodes', currentNodeId') # Undefined]_vars

\* In a valid two-node graph a makeChoice has moved the cursor from one
\* mapped node to the other.
C24_Witness ==
    /\ op = "makeChoice"
    /\ ret = Bool(TRUE)
    /\ ValidateGraphValue(nodes) = Bool(TRUE)
    /\ Cardinality(DOMAIN nodes) = 2
    /\ currentNodeId \in DOMAIN nodes
    /\ \E from \in DOMAIN nodes \ {currentNodeId} :
           currentNodeId \in TargetsOf(nodes, from)

\* No id the player can type makes makeChoice succeed.
NoChoiceSucceeds ==
    \A choiceId \in PlayerIds :
        MakeChoiceStep(nodes, currentNodeId, choiceId)[1] = Bool(FALSE)

\* C25: on the fixture started at node 1 every play ends at an ending: the
\* cursor history has at most 5 transitions and no node twice, and when no
\* makeChoice can succeed any more the cursor is on node 6, 7 or 8, whose
\* isEnding is true.
C25_EveryPlayEndsAtAnEnding ==
    /\ Len(path) <= 5 + 1
    /\ \A i \in 1..Len(path) : \A j \in 1..Len(path) : path[i] = path[j] => i = j
    /\ pc = "play" /\ NoChoiceSucceeds =>
           /\ currentNodeId \in {6, 7, 8}
           /\ IsAtEndingValue(nodes, currentNodeId) = Bool(TRUE)

\* A play of five transitions has come to node 8, where nothing more can be
\* chosen.
C25_Witness ==
    /\ pc = "play"
    /\ Len(path) = 6
    /\ currentNodeId = 8
    /\ path[Len(path)] = 8
    /\ NoChoiceSucceeds


\* ------------------------------ EncounterEvaluator: further claims

\* A non-empty party of valid levels has been evaluated against at least
\* one opponent.
EvaluatedFight ==
    Evaluated /\ ValidParty /\ party # <<>> /\ opponents # <<>>

\* C26: for a non-empty party of valid levels and a non-empty opponent
\* list, one more opponent of any XP >= 0 at the end of the list never
\* lowers the result: each of the three multiplier values, adjustedXp and
\* the difficulty tier (Easy < Medium < Hard < Deadly) is at least what it
\* was without that opponent.
C26_MoreOpponentsNeverEasier ==
    EvaluatedFight =>
        /\ evaluation # TypeError
        /\ \A xp \in OpponentXps :
               LET more == EvaluateValue(thresholdsByLevel, party,
                                         Append(opponents, xp))
               IN  /\ more # TypeError
                   /\ more.multiplier.fewerThanThree >= evaluation.multiplier.fewerThanThree
                   /\ more.multiplier.threeToFive >= evaluation.multiplier.threeToFive
                   /\ more.multiplier.sixOrMore >= evaluation.multiplier.sixOrMore
                   /\ more.adjustedXp >= evaluation.adjustedXp
                   /\ TierRank(more.difficulty) >= TierRank(evaluation.difficulty)

\* Two opponents have been evaluated as less than Deadly, and a third,
\* worth nothing, moves the encounter to the next band and a higher tier.
C26_Witness ==
    /\ EvaluatedFight
    /\ Len(opponents) = 2
    /\ evaluation.difficulty # "Deadly"
    /\ TierRank(EvaluateValue(thresholdsByLevel, party, Append(opponents, 0)).difficulty)
           > TierRank(evaluation.difficulty)

\* C27: for a non-empty opponent list and a non-empty party of valid
\* levels, one more member of any level 1..20 never raises the difficulty
\* tier: each combined threshold grows strictly and adjustedXp does not
\* grow, also when the party goes from 2 to 3 or from 5 to 6 members.
C27_MoreMembersNeverHarder ==
    EvaluatedFight =>
        /\ evaluation # TypeError
        /\ \A level \in 1..20 :
               LET more == EvaluateValue(thresholdsByLevel, Append(party, level),
                                         opponents)
               IN  /\ more # TypeError
                   /\ \A tier \in {"Easy", "Medium", "Hard", "Deadly"} :
                          more.partyXpThresholds[tier] > evaluation.partyXpThresholds[tier]
                   /\ more.adjustedXp <= evaluation.adjustedXp
                   /\ TierRank(more.difficulty) <= TierRank(evaluation.difficulty)

\* A party of five has been evaluated against a positive XP total; a sixth
\* member brings the sixOrMore value in and the adjusted XP down.
C27_Witness ==
    /\ EvaluatedFight
    /\ Len(party) = 5
    /\ evaluation.actualXp > 0
    /\ EvaluateValue(thresholdsByLevel, Append(party, 1), opponents).adjustedXp
           < evaluation.adjustedXp

\* C28: with an empty party and at least one opponent all four thresholds
\* are 0, the fewerThanThree value is applied, and the difficulty is Deadly
\* whatever the opponents are worth, nothing included.
C28_EmptyPartyIsDeadly ==
    Evaluated /\ party = <<>> /\ opponents # <<>> =>
        /\ evaluation # TypeError
        /\ evaluation.partyXpThresholds = Thresholds(0, 0, 0, 0)
        /\ evaluation.adjustedXp = evaluation.actualXp * evaluation.multiplier.fewerThanThree
        /\ evaluation.difficulty = "Deadly"

\* An empty party has been evaluated against opponents all worth 0 XP.
C28_Witness ==
    /\ IsEvaluation
    /\ party = <<>>
    /\ Len(opponents) >= 2
    /\ \A i \in 1..Len(opponents) : opponents[i] = 0
    /\ evaluation.adjustedXp = 0
    /\ evaluation.difficulty = "Deadly"


\* Every reordering of a list.
Reorderings(xs) ==
    {[i \in 1..Len(xs) |-> xs[perm[i]]] : perm \in Permutations(1..Len(xs))}

\* Two results of evaluate agree: both threw, or the five derived fields
\* are the same.
SameResult(a, b) ==
    IF a = TypeError \/ b = TypeError THEN a = b
    ELSE /\ a.actualXp = b.actualXp
         /\ a.partyXpThresholds = b.partyXpThresholds
         /\ a.multiplier = b.multiplier
         /\ a.adjustedXp = b.adjustedXp
         /\ a.difficulty = b.difficulty

\* C29: the evaluation does not depend on the order of its inputs: with at
\* least one opponent, every reordering of the party together with every
\* reordering of the opponents gives the same actualXp, partyXpThresholds,
\* multiplier, adjustedXp and difficulty as the encounter as given.
C29_OrderDoesNotMatter ==
    Evaluated /\ opponents # <<>> =>
        \A p \in Reorderings(party) : \A q \in Reorderings(opponents) :
            SameResult(EvaluateValue(thresholdsByLevel, p, q), evaluation)

\* An encounter of three different-looking halves has been evaluated: a
\* party of two levels and opponents of two XP values, each with more than
\* one order.
C29_Witness ==
    /\ IsEvaluation
    /\ Len(party) = 3
    /\ party[1] # party[3]
    /\ Len(opponents) = 3
    /\ opponents[1] # opponents[2]

====
